---------------------------- MODULE Spec2Model ----------------------------
(***************************************************************************)
(* Model of the caption timeline and synchronized render engine of         *)
(* src/App.tsx: the segmenter (splitText), the timeline mapper             *)
(* (getTimedCaptions), the scene selection of a render tick, the render    *)
(* loop effect, and the capture pipeline (exportVideo).                    *)
(*                                                                         *)
(* Text is a sequence of one-character strings.  Times are exact rationals *)
(* [n, d] with d > 0 (the code computes them in double precision).         *)
(***************************************************************************)
EXTENDS Integers, Sequences, FiniteSets, TLC

\* ------------------------------------------------------------------ bounds
\* Longest section text of the segmenter runs, in pieces.
MaxPieces == 5
\* Most pieces of a whole script (hook, body and outro together) of the timeline runs.
MaxScriptPieces == 3
\* Longest measured narration, in seconds.
MaxDur == 2
\* Clock readings per second of the timeline runs.
TimeRes == 2
\* How far, in seconds, a clock reading of the timeline runs lies past the duration.
MaxDrift == 1
\* Most image assets of the timeline runs.
MaxScenes == 4
\* Most recorders exportVideo creates.
MaxCaptures == 2
\* result.imagePrompts.length of the application runs.
NumPrompts == 2

\* ------------------------------------------------------- program constants
MAX_CHARS == 24
\* const duration = audio?.duration || 10
FALLBACK_DURATION == 10
\* The reading of audio.duration while no metadata is loaded (NaN), and of
\* audio?.duration without an audio element (undefined).
NaN == -1

\* --------------------------------------------------------------- text
\* /\s/ restricted to the blank, the only whitespace of the input alphabet.
IsSpace(c) == c = " "

\* The character class [.!?] of both regular expressions of splitText.
IsTerminator(c) == c \in {".", "!", "?"}

RECURSIVE SkipSpaces(_, _)
\* The first index >= i of s that holds no whitespace (Len(s)+1 if none): \s+ is greedy.
SkipSpaces(s, i) ==
    IF i <= Len(s) /\ IsSpace(s[i]) THEN SkipSpaces(s, i + 1) ELSE i

RECURSIVE Trim(_)
\* String.prototype.trim
Trim(s) ==
    IF s = <<>> THEN s
    ELSE IF IsSpace(Head(s)) THEN Trim(Tail(s))
    ELSE IF IsSpace(s[Len(s)]) THEN Trim(SubSeq(s, 1, Len(s) - 1))
    ELSE s

\* The least element of a non-empty set of indices.
Least(S) == CHOOSE j \in S : \A k \in S : j <= k

\* The index >= i of the first terminator of s that whitespace follows, the
\* leftmost match of /[.!?]\s+/ (Len(s)+1 if none).
NextSentenceBreak(s, i) ==
    LET B == {j \in i..(Len(s) - 1) : IsTerminator(s[j]) /\ IsSpace(s[j + 1])}
    IN  IF B = {} THEN Len(s) + 1 ELSE Least(B)

RECURSIVE SplitSentencesFrom(_, _)
\* text.split(/[.!?]\s+/) from index i on: the terminator and the whitespace after
\* it are dropped.
SplitSentencesFrom(s, i) ==
    LET j == NextSentenceBreak(s, i)
    IN  IF j > Len(s) THEN <<SubSeq(s, i, Len(s))>>
        ELSE <<SubSeq(s, i, j - 1)>> \o SplitSentencesFrom(s, SkipSpaces(s, j + 1))

\* The index >= i of the first comma of s that whitespace follows, the leftmost
\* match of /([,])\s+/ (Len(s)+1 if none).
NextClauseBreak(s, i) ==
    LET B == {j \in i..(Len(s) - 1) : s[j] = "," /\ IsSpace(s[j + 1])}
    IN  IF B = {} THEN Len(s) + 1 ELSE Least(B)

RECURSIVE SplitClausesFrom(_, _)
\* s.split(/([,])\s+/) from index i on: the captured comma is kept as a part of
\* its own, the whitespace after it is dropped.
SplitClausesFrom(s, i) ==
    LET j == NextClauseBreak(s, i)
    IN  IF j > Len(s) THEN <<SubSeq(s, i, Len(s))>>
        ELSE <<SubSeq(s, i, j - 1), <<",">> >> \o SplitClausesFrom(s, SkipSpaces(s, j + 1))

\* No filter: blank pieces are kept.
DropBlank_None(seq) == seq

RECURSIVE DropBlank(_)
\* .filter(s => s.trim().length > 0)
DropBlank(seq) ==
    IF seq = <<>> THEN <<>>
    ELSE (IF Len(Trim(Head(seq))) > 0 THEN <<Head(seq)>> ELSE <<>>) \o DropBlank(Tail(seq))

RECURSIVE DropEmpty(_)
\* .filter(Boolean)
DropEmpty(seq) ==
    IF seq = <<>> THEN <<>>
    ELSE (IF Head(seq) # <<>> THEN <<Head(seq)>> ELSE <<>>) \o DropEmpty(Tail(seq))

\* s.trim() + (/[.!?]$/.test(s) ? '' : '.')   (the test reads the untrimmed s)
NormalizeSentence(s) ==
    Trim(s) \o (IF s # <<>> /\ IsTerminator(s[Len(s)]) THEN <<>> ELSE <<".">>)

\* The sentences of a text: split, blank ones dropped, each normalized.
Sentences(text) ==
    LET kept == DropBlank(SplitSentencesFrom(text, 1))
    IN  [k \in 1..Len(kept) |-> NormalizeSentence(kept[k])]

RECURSIVE Accumulate_FlushEmpty(_, _, _)
\* A loop that flushes the buffer also when it is empty.
Accumulate_FlushEmpty(parts, chunks, currentChunk) ==
    IF parts = <<>> THEN [chunks |-> chunks, currentChunk |-> currentChunk]
    ELSE LET p == Head(parts)
         IN  IF Len(currentChunk \o p) > MAX_CHARS
             THEN Accumulate_FlushEmpty(Tail(parts), Append(chunks, Trim(currentChunk)), p)
             ELSE Accumulate_FlushEmpty(Tail(parts), chunks, currentChunk \o p)

RECURSIVE Accumulate(_, _, _)
\* parts.forEach of splitText: chunks and the running buffer currentChunk.
Accumulate(parts, chunks, currentChunk) ==
    IF parts = <<>> THEN [chunks |-> chunks, currentChunk |-> currentChunk]
    ELSE LET p == Head(parts)
         IN  IF Len(currentChunk \o p) > MAX_CHARS /\ currentChunk # <<>>
             THEN Accumulate(Tail(parts), Append(chunks, Trim(currentChunk)), p)
             ELSE Accumulate(Tail(parts), chunks, currentChunk \o p)

\* The chunks of one sentence.
SentenceChunks(s) ==
    IF Len(s) <= MAX_CHARS THEN <<s>>
    ELSE LET parts == DropEmpty(SplitClausesFrom(s, 1))
             acc == Accumulate(parts, <<>>, <<>>)
         IN  IF acc.currentChunk # <<>>
             THEN Append(acc.chunks, Trim(acc.currentChunk))
             ELSE acc.chunks

RECURSIVE FlatMapChunks(_)
FlatMapChunks(sentences) ==
    IF sentences = <<>> THEN <<>>
    ELSE SentenceChunks(Head(sentences)) \o FlatMapChunks(Tail(sentences))

\* splitText of getTimedCaptions.
splitText(text) == FlatMapChunks(Sentences(text))

\* chunks.join('')
RECURSIVE Join(_)
Join(chunks) == IF chunks = <<>> THEN <<>> ELSE Head(chunks) \o Join(Tail(chunks))


\* ---------------------------------------------------------- rational numbers
Rat(n, d) == [n |-> n, d |-> d]
RInt(k) == Rat(k, 1)
RLe(a, b) == a.n * b.d <= b.n * a.d
RLt(a, b) == a.n * b.d < b.n * a.d
REq(a, b) == a.n * b.d = b.n * a.d
RSub(a, b) == Rat(a.n * b.d - b.n * a.d, a.d * b.d)
RMulInt(a, k) == Rat(a.n * k, a.d)
\* a / b for b # 0, the denominator kept positive.
RDiv(a, b) ==
    IF b.n > 0 THEN Rat(a.n * b.d, a.d * b.n) ELSE Rat(-(a.n * b.d), a.d * (-b.n))
\* Math.floor
RFloor(a) == a.n \div a.d
Min(x, y) == IF x <= y THEN x ELSE y

\* ------------------------------------------------------------ timeline mapper
RECURSIVE mapToTimed_EndBeforeAdd(_, _, _, _, _)
\* mapToTimed with end computed before accumulatedChars is advanced.
mapToTimed_EndBeforeAdd(chunks, section, accumulatedChars, totalChars, duration) ==
    IF chunks = <<>> THEN <<>>
    ELSE LET text == Head(chunks)
             start == Rat(accumulatedChars * duration, totalChars)
         IN  <<[text |-> text, startTime |-> start, endTime |-> start, section |-> section]>>
             \o mapToTimed_EndBeforeAdd(Tail(chunks), section, accumulatedChars + Len(text),
                                        totalChars, duration)

RECURSIVE mapToTimed(_, _, _, _, _)
\* mapToTimed of getTimedCaptions; accumulatedChars is the running offset on entry.
mapToTimed(chunks, section, accumulatedChars, totalChars, duration) ==
    IF chunks = <<>> THEN <<>>
    ELSE LET text == Head(chunks)
             start == Rat(accumulatedChars * duration, totalChars)
             end == Rat((accumulatedChars + Len(text)) * duration, totalChars)
         IN  <<[text |-> text, startTime |-> start, endTime |-> end, section |-> section]>>
             \o mapToTimed(Tail(chunks), section, accumulatedChars + Len(text),
                           totalChars, duration)

getTimedCaptions(script, duration) ==
    LET hookChunks == splitText(script.hook)
        bodyChunks == splitText(script.body)
        outroChunks == splitText(script.outro)
        hookChars == Len(Join(hookChunks))
        bodyChars == Len(Join(bodyChunks))
        totalChars == Len(Join(hookChunks) \o Join(bodyChunks) \o Join(outroChunks))
    IN  mapToTimed(hookChunks, "hook", 0, totalChars, duration)
        \o mapToTimed(bodyChunks, "body", hookChars, totalChars, duration)
        \o mapToTimed(outroChunks, "outro", hookChars + bodyChars, totalChars, duration)

\* ------------------------------------------------------------ scene selector
\* The value of an absent caption (Array.prototype.find without a match, or the
\* element at index -1 of an empty array).
undefined == [text |-> <<>>, startTime |-> RInt(0), endTime |-> RInt(0), section |-> "undefined"]

RECURSIVE FindAt(_, _)
\* allCaptions.find(s => time >= s.startTime && time < s.endTime)
FindAt(captions, time) ==
    IF captions = <<>> THEN undefined
    ELSE IF RLe(Head(captions).startTime, time) /\ RLt(time, Head(captions).endTime)
         THEN Head(captions)
         ELSE FindAt(Tail(captions), time)

\* allCaptions.find(...) alone, without the last caption as the fallback.
currentCap_NoFallback(allCaptions, time) == FindAt(allCaptions, time)

\* const currentCap = allCaptions.find(...) || allCaptions[allCaptions.length - 1]
currentCap(allCaptions, time) ==
    LET found == FindAt(allCaptions, time)
    IN  IF found # undefined THEN found
        ELSE IF allCaptions # <<>> THEN allCaptions[Len(allCaptions)]
        ELSE undefined

BodyCaptions(allCaptions) == SelectSeq(allCaptions, LAMBDA s : s.section = "body")

\* allCaptions.find(s => s.section === 'body')?.startTime || 0
bodyS(allCaptions) ==
    LET b == BodyCaptions(allCaptions)
    IN  IF b # <<>> /\ b[1].startTime.n # 0 THEN b[1].startTime ELSE RInt(0)

\* [...allCaptions].reverse().find(s => s.section === 'body')?.endTime || duration
bodyE(allCaptions, duration) ==
    LET b == BodyCaptions(allCaptions)
    IN  IF b # <<>> /\ b[Len(b)].endTime.n # 0 THEN b[Len(b)].endTime ELSE RInt(duration)

\* The progress through the whole timeline instead of through the body.
prog_WholeTimeline(allCaptions, duration, time) == RDiv(time, RInt(duration))

\* The part of the body that is still to come instead of the part that is over.
prog_Remaining(allCaptions, duration, time) ==
    LET span == RSub(bodyE(allCaptions, duration), bodyS(allCaptions))
    IN  RDiv(RSub(bodyE(allCaptions, duration), time), IF span.n # 0 THEN span ELSE RInt(1))

\* prog = (time - bodyS) / (bodyE - bodyS || 1)
prog(allCaptions, duration, time) ==
    LET span == RSub(bodyE(allCaptions, duration), bodyS(allCaptions))
    IN  RDiv(RSub(time, bodyS(allCaptions)), IF span.n # 0 THEN span ELSE RInt(1))

\* The image index without Math.min: 1 + Math.floor(prog * bCount) for the body.
currentImgIdx_NoMin(allCaptions, duration, time, imagesLength) ==
    LET cap == currentCap(allCaptions, time)
        bCount == imagesLength - 2
    IN  IF cap.section = "hook" THEN 0
        ELSE IF cap.section = "outro" THEN imagesLength - 1
        ELSE 1 + RFloor(RMulInt(prog(allCaptions, duration, time), bCount))

\* The image index of a render tick; imagesLength = images.length.
currentImgIdx(allCaptions, duration, time, imagesLength) ==
    LET cap == currentCap(allCaptions, time)
        bCount == imagesLength - 2
    IN  IF cap.section = "hook" THEN 0
        ELSE IF cap.section = "outro" THEN imagesLength - 1
        ELSE 1 + Min(RFloor(RMulInt(prog(allCaptions, duration, time), bCount)), bCount - 1)


\* audio?.duration ?? 10: a measured duration of 0 is kept.
effectDuration_KeepsZero(measured) ==
    IF measured = NaN THEN FALLBACK_DURATION ELSE measured

\* const duration = audio?.duration || 10
effectDuration(measured) ==
    IF measured = NaN \/ measured = 0 THEN FALLBACK_DURATION ELSE measured

\* ------------------------------------------------------------------- inputs
Word(n) == [i \in 1..n |-> "a"]

\* The pieces section texts of the segmenter runs are made of.
Pieces ==
    { <<"a">>, Word(12), <<" ">>, <<",", " ">>, <<".", " ">>, <<"!", " ">>, <<".">> }

\* The pieces scripts of the timeline runs are made of: a short sentence, a long
\* sentence of two clauses, a word, and whitespace.
ScriptPieces ==
    { <<"a", "a", "a", ".", " ">>,
      Word(12) \o <<",", " ">> \o Word(12) \o <<"!", " ">>,
      <<"a", "a", " ">>,
      <<" ">> }

RECURSIVE TextsOf(_, _)
\* The concatenations of exactly k pieces.
TextsOf(pieces, k) ==
    IF k = 0 THEN { <<>> }
    ELSE { t \o p : t \in TextsOf(pieces, k - 1), p \in pieces }

Scripts ==
    UNION { { [hook |-> h, body |-> b, outro |-> o] :
                h \in TextsOf(ScriptPieces, i),
                b \in TextsOf(ScriptPieces, j),
                o \in TextsOf(ScriptPieces, k) } :
            <<i, j, k>> \in { x \in (0..MaxScriptPieces) \X (0..MaxScriptPieces)
                                      \X (0..MaxScriptPieces) :
                              x[1] + x[2] + x[3] <= MaxScriptPieces } }

EmptyScript == [hook |-> <<>>, body |-> <<>>, outro |-> <<>>]

\* -------------------------------------------------------------------- state
VARIABLES
    segText,      \* segmenter run: the text given to splitText
    segChunks,    \* segmenter run: the chunks splitText returned
    segPc,        \* segmenter run: "input" | "done"
    tlScript,     \* timeline run: result.script
    tlMeasured,   \* timeline run: audio.duration as the effect reads it
    tlDuration,   \* timeline run: duration of the effect
    tlCaptions,   \* timeline run: allCaptions of the effect
    tlImages,     \* timeline run: images.length
    tlTime,       \* timeline run: time of the render tick
    tlCap,        \* timeline run: currentCap of the render tick
    tlIdx,        \* timeline run: currentImgIdx of the render tick
    tlPc          \* timeline run: "input" | "mapped" | "ticked"

segVars == <<segText, segChunks, segPc>>
tlVars == <<tlScript, tlMeasured, tlDuration, tlCaptions, tlImages, tlTime, tlCap, tlIdx, tlPc>>

VARIABLES
    step,           \* useState: GenerationStep
    result,         \* useState: GenerationResult | null
    assets,         \* useState: AssetData[]
    isRegenerating, \* useState: the keys that are true
    isExporting,    \* useState
    isPlaying,      \* useState
    currentTime,    \* useState
    audSrc,         \* audio element: the blob URL of its src (NoSrc without one)
    audPaused,      \* audio element: paused
    audTime,        \* audio element: currentTime, in seconds
    audDuration,    \* audio element: duration (NaN until the metadata is loaded)
    audOnEnded,     \* audio element: onended, the recorder its handler stops (0: null)
    recorders,      \* the MediaRecorders created so far
    timerPending,   \* the setTimeout of exportVideo is armed
    effLive,        \* the last run of the render effect passed its early returns
    effIsPlaying,   \* render effect closure: isPlaying
    effImages,      \* render effect closure: images
    effDuration,    \* render effect closure: duration
    effCaptions,    \* render effect closure: allCaptions
    frames,         \* the callbacks requestAnimationFrame(render) has scheduled and not yet run
    lastAction      \* the handler that ran last, of those the properties name

reactVars == <<step, result, assets, isRegenerating, isExporting, isPlaying, currentTime>>
audioVars == <<audSrc, audPaused, audTime, audDuration, audOnEnded>>
captureVars == <<recorders, timerPending>>
effectVars == <<effLive, effIsPlaying, effImages, effDuration, effCaptions, frames>>

\* A callback of requestAnimationFrame(render) is scheduled.
framePending == frames > 0
appVars == <<reactVars, audioVars, captureVars, effectVars, lastAction>>

VARIABLES
    hasKey,          \* useState: "null" | "true" | "false"
    keyCheckPending, \* the mount effect's hasSelectedApiKey() has not resolved
    rtPc,            \* callWithRetry: "idle" | "calling" | "waiting" | "returned" | "thrown"
    rtMaxRetries,    \* callWithRetry: the argument maxRetries
    rtI,             \* callWithRetry: the loop variable i
    rtLastError,     \* callWithRetry: lastError
    rtSettled,       \* callWithRetry: the value returned or the error thrown
    rtAttempts,      \* how each invocation of fn settled, in order
    rtCalls,         \* the number of invocations of fn
    rtWaits          \* the number of backoff timers started

retryVars == <<hasKey, keyCheckPending, rtPc, rtMaxRetries, rtI, rtLastError, rtSettled,
               rtAttempts, rtCalls, rtWaits>>

VARIABLES
    wrText,    \* caption wrap: currentCap.text
    wrW,       \* caption wrap: the width w of the canvas
    wrEm,      \* caption wrap: the advance of a glyph of the font, in em
    wrLines,   \* caption wrap: lines
    wrFinal,   \* caption wrap: finalLines
    wrPc       \* caption wrap: "idle" | "input" | "drawn"

wrapVars == <<wrText, wrW, wrEm, wrLines, wrFinal, wrPc>>
vars == <<segVars, tlVars, appVars, retryVars, wrapVars>>

\* ------------------------------------------------------------ segmenter runs
SegIdle ==
    /\ segText = <<>>
    /\ segChunks = <<>>
    /\ segPc = "idle"

SegInit ==
    /\ segText \in UNION { TextsOf(Pieces, k) : k \in 0..MaxPieces }
    /\ segChunks = <<>>
    /\ segPc = "input"

\* One call of splitText.
SegSplit ==
    /\ segPc = "input"
    /\ segChunks' = splitText(segText)
    /\ segPc' = "done"
    /\ UNCHANGED <<segText, tlVars, appVars, retryVars, wrapVars>>

\* ------------------------------------------------------------- timeline runs
TlIdle ==
    /\ tlScript = EmptyScript
    /\ tlMeasured = NaN
    /\ tlDuration = 0
    /\ tlCaptions = <<>>
    /\ tlImages = 0
    /\ tlTime = RInt(0)
    /\ tlCap = undefined
    /\ tlIdx = 0
    /\ tlPc = "idle"

TlInit ==
    /\ tlScript \in Scripts
    /\ tlMeasured \in {NaN} \cup (0..MaxDur)
    /\ tlDuration = 0
    /\ tlCaptions = <<>>
    /\ tlImages = 0
    /\ tlTime = RInt(0)
    /\ tlCap = undefined
    /\ tlIdx = 0
    /\ tlPc = "input"

\* The effect body up to the timeline: duration and allCaptions.
TlMap ==
    /\ tlPc = "input"
    /\ tlDuration' = effectDuration(tlMeasured)
    /\ tlCaptions' = getTimedCaptions(tlScript, effectDuration(tlMeasured))
    /\ tlPc' = "mapped"
    /\ UNCHANGED <<tlScript, tlMeasured, tlImages, tlTime, tlCap, tlIdx, segVars, appVars, retryVars, wrapVars>>

\* One render tick over the timeline: the clock reads time, images holds n assets.
TlRender(time, n) ==
    /\ tlPc = "mapped"
    /\ tlTime' = time
    /\ tlImages' = n
    /\ tlCap' = currentCap(tlCaptions, time)
    /\ tlIdx' = currentImgIdx(tlCaptions, tlDuration, time, n)
    /\ tlPc' = "ticked"
    /\ UNCHANGED <<tlScript, tlMeasured, tlDuration, tlCaptions, segVars, appVars, retryVars, wrapVars>>

\* The readings of audio.currentTime: from 0 to the duration of the timeline, and
\* past it when the narration is longer than the duration the effect read.
ClockReadings(duration) == { Rat(k, TimeRes) : k \in 0..((duration + MaxDrift) * TimeRes) }

TlTick == \E n \in 1..MaxScenes : \E time \in ClockReadings(tlDuration) : TlRender(time, n)

\* ----------------------------------------------------------- application
\* result before the first text generation.
null == [script |-> EmptyScript, imagePrompts |-> 0]
\* The src of an audio element without a narration asset.
NoSrc == 0

ShortSentence == <<"a", "a", "a", ".">>
LongSentence == Word(12) \o <<",", " ">> \o Word(12) \o <<"!">>

\* The script the text generation returns in the application runs.
GeneratedScript ==
    [hook |-> ShortSentence, body |-> LongSentence \o <<" ">> \o ShortSentence,
     outro |-> <<"a", "a">>]

\* The values a script field is edited to in the application runs.
EditTexts == { LongSentence, LongSentence \o <<" ">> \o ShortSentence }
\* The script fields edited in the application runs.
EditFields == { "body" }

\* { type: 'image', name: `image_${i}.png`, data: <blob URL> }; the name is kept as i.
ImageAsset(i, url) == [type |-> "image", name |-> i, data |-> url, dur |-> 0]
\* { type: 'audio', name: 'narration.wav', data: <blob URL> }; the name is kept as 0,
\* dur is the length of the WAV blob behind the URL.
AudioAsset(url, d) == [type |-> "audio", name |-> 0, data |-> url, dur |-> d]

OfType(as, type) == SelectSeq(as, LAMBDA a : a.type = type)
NotOfType(as, type) == SelectSeq(as, LAMBDA a : a.type # type)

\* assets.find(a => a.type === 'audio')?.data
NarrationSrc(as) ==
    IF OfType(as, "audio") # <<>> THEN OfType(as, "audio")[1].data ELSE NoSrc

\* The length of the narration the audio element has loaded.
NarrationLength(as) == OfType(as, "audio")[1].dur

\* URL.createObjectURL(blob): a blob URL that differs from the one the audio
\* element holds and from the ones of the assets (URLs are kept as 1 and 2).
FreshUrl ==
    IF audSrc = 1 \/ \E i \in 1..Len(assets) : assets[i].data = 1 THEN 2 ELSE 1

\* URL.createObjectURL(blob) for the asset that replaces the one of this name: a
\* blob URL that differs from the one of the asset it replaces.
FreshUrlFor(name) ==
    IF \E i \in 1..Len(assets) : assets[i].name = name /\ assets[i].data = 1 THEN 2 ELSE 1

\* The key of isRegenerating for the image of imagePrompts[index]: `image_${index}`.
ImageKey(index) == "image_" \o ToString(index)

\* The canvas and the two audio elements are rendered (canvasRef.current and
\* audioRef.current are set together).
Mounted(st, res) == st = "FINISHED" /\ res # null

AppInit ==
    /\ step = "IDLE"
    /\ result = null
    /\ assets = <<>>
    /\ isRegenerating = {}
    /\ isExporting = FALSE
    /\ isPlaying = FALSE
    /\ currentTime = 0
    /\ audSrc = NoSrc
    /\ audPaused = TRUE
    /\ audTime = 0
    /\ audDuration = NaN
    /\ audOnEnded = 0
    /\ recorders = <<>>
    /\ timerPending = FALSE
    /\ effLive = FALSE
    /\ effIsPlaying = FALSE
    /\ effImages = <<>>
    /\ effDuration = 0
    /\ effCaptions = <<>>
    /\ frames = 0
    /\ lastAction = "other"

AppIdle == AppInit

\* An effect without cleanup: the scheduled frame stays.
pendingAfterCleanup_None(pending) == pending

\* return () => cancelAnimationFrame(frameId): the frames that stay scheduled after
\* the cleanup of the render effect, of the pending ones (frameId is the last one
\* render scheduled).
pendingAfterCleanup(pending) == 0

\* render schedules its successor whether playing or not.
scheduledByRender_Always(playing) == 1

\* if (isPlaying) frameId = requestAnimationFrame(render): the frames one call of
\* render schedules, playing being the isPlaying of its closure.
scheduledByRender(playing) == IF playing THEN 1 ELSE 0

\* The render effect does not run, or returns early: no closure, nothing scheduled.
EffectOff ==
    /\ effLive' = FALSE
    /\ effIsPlaying' = FALSE
    /\ effImages' = <<>>
    /\ effDuration' = 0
    /\ effCaptions' = <<>>

\* The readings audio.duration can give the effect that runs after the element got
\* a new src: NaN, or the length when the metadata was read before the effect ran.
DurationsAfterLoad(src, as) ==
    IF src = NoSrc THEN {NaN} ELSE {NaN, NarrationLength(as)}

\* A dependency list without assets.
depsChanged_NoAssets ==
    <<isPlaying', step', result'>> # <<isPlaying, step, result>>

\* [isPlaying, step, assets, result, aspectRatio]: a dependency of the render effect
\* has changed in this step (aspectRatio is fixed).
depsChanged ==
    <<isPlaying', step', assets', result'>> # <<isPlaying, step, assets, result>>

\* The commit that follows a handler: the audio element is mounted, unmounted or
\* given its new src, then the render effect runs if one of its dependencies
\* changed.  time and onended are the audio element's currentTime and onended as
\* the handler left them.
Commit(time, onended) ==
    LET mounted == Mounted(step', result')
        remount == mounted /\ ~Mounted(step, result)
        src == NarrationSrc(assets')
        reload == mounted /\ (remount \/ src # audSrc)
        domTime == IF reload THEN 0 ELSE time
    IN  IF ~mounted
        THEN /\ audSrc' = NoSrc
             /\ audPaused' = TRUE
             /\ audTime' = 0
             /\ audDuration' = NaN
             /\ audOnEnded' = 0
             /\ currentTime' = currentTime
             /\ IF depsChanged
                THEN EffectOff /\ frames' = pendingAfterCleanup(frames)
                ELSE UNCHANGED effectVars
        ELSE IF ~depsChanged
        THEN /\ audSrc' = audSrc
             /\ audPaused' = audPaused
             /\ audTime' = time
             /\ audDuration' = audDuration
             /\ audOnEnded' = onended
             /\ currentTime' = currentTime
             /\ UNCHANGED effectVars
        ELSE \E domDuration \in
                    (IF reload THEN DurationsAfterLoad(src, assets') ELSE {audDuration}) :
             /\ audSrc' = src
             /\ audDuration' = domDuration
             /\ audOnEnded' = IF remount THEN 0 ELSE onended
             \* audio.play() (from the start when the playback has ended) or audio.pause()
             /\ audPaused' = ~isPlaying'
             /\ audTime' = IF isPlaying' /\ domDuration # NaN /\ domTime = domDuration
                           THEN 0 ELSE domTime
             /\ effLive' = TRUE
             /\ effIsPlaying' = isPlaying'
             /\ effImages' = OfType(assets', "image")
             /\ effDuration' = effectDuration(domDuration)
             /\ effCaptions' = getTimedCaptions(result'.script, effectDuration(domDuration))
             \* render() once: setCurrentTime(audio.currentTime || 0), then the next frame
             /\ currentTime' = audTime'
             /\ frames' = scheduledByRender(isPlaying')
                          + (IF effLive THEN pendingAfterCleanup(frames) ELSE frames)

\* A handler that leaves the audio element alone.
CommitOnly == Commit(audTime, audOnEnded)

\* --- generation flow
\* startTextGeneration up to its await (the topic is not blank).
StartTextGeneration ==
    /\ step = "IDLE"
    /\ assets' = <<>>
    /\ step' = "GENERATING_TEXT"
    /\ lastAction' = "other"
    /\ UNCHANGED <<result, isRegenerating, isExporting, isPlaying, captureVars, segVars, tlVars, retryVars, wrapVars>>
    /\ CommitOnly

\* startTextGeneration after its await: setResult(data); setStep(REVIEW).
TextGenerationDone ==
    /\ step = "GENERATING_TEXT"
    /\ result' = [script |-> GeneratedScript, imagePrompts |-> NumPrompts]
    /\ step' = "REVIEW"
    /\ lastAction' = "other"
    /\ UNCHANGED <<assets, isRegenerating, isExporting, isPlaying, captureVars, segVars, tlVars, retryVars, wrapVars>>
    /\ CommitOnly

\* The catch blocks of startTextGeneration and startAssetGeneration.
GenerationFailed ==
    /\ step \in {"GENERATING_TEXT", "GENERATING_ASSETS"}
    /\ step' = "ERROR"
    /\ lastAction' = "other"
    /\ UNCHANGED <<result, assets, isRegenerating, isExporting, isPlaying, captureVars, segVars, tlVars, retryVars, wrapVars>>
    /\ CommitOnly

\* The button of the error screen: setStep(IDLE).
ErrorToIdle ==
    /\ step = "ERROR"
    /\ step' = "IDLE"
    /\ lastAction' = "other"
    /\ UNCHANGED <<result, assets, isRegenerating, isExporting, isPlaying, captureVars, segVars, tlVars, retryVars, wrapVars>>
    /\ CommitOnly

\* handleEditResult('script.<field>', value) from a textarea of the script.
EditScript(field, value) ==
    /\ step \in {"REVIEW", "FINISHED"}
    /\ result # null
    /\ result.script[field] # value
    /\ result' = [result EXCEPT !.script[field] = value]
    /\ lastAction' = "handleEditResult"
    /\ UNCHANGED <<step, assets, isRegenerating, isExporting, isPlaying, captureVars, segVars, tlVars, retryVars, wrapVars>>
    /\ CommitOnly

\* startAssetGeneration up to its first await.
StartAssetGeneration ==
    /\ step = "REVIEW"
    /\ result # null
    /\ step' = "GENERATING_ASSETS"
    /\ lastAction' = "other"
    /\ UNCHANGED <<result, assets, isRegenerating, isExporting, isPlaying, captureVars, segVars, tlVars, retryVars, wrapVars>>
    /\ CommitOnly

RECURSIVE GeneratedImages(_, _, _)
\* The images startAssetGeneration pushes: prompt i gives one when i is in kept
\* (the response holds inline data).
GeneratedImages(i, kept, url) ==
    IF i > result.imagePrompts THEN <<>>
    ELSE (IF i \in kept THEN <<ImageAsset(i, url)>> ELSE <<>>)
         \o GeneratedImages(i + 1, kept, url)

\* startAssetGeneration after its last await: setAssets(generatedAssets);
\* setStep(FINISHED).  narration is the length of the narration, 0 without audio data.
AssetGenerationDone(kept, narration) ==
    /\ step = "GENERATING_ASSETS"
    /\ assets' = GeneratedImages(1, kept, FreshUrl)
                 \o (IF narration > 0 THEN <<AudioAsset(FreshUrl, narration)>> ELSE <<>>)
    /\ step' = "FINISHED"
    /\ lastAction' = "other"
    /\ UNCHANGED <<result, isRegenerating, isExporting, isPlaying, captureVars, segVars, tlVars, retryVars, wrapVars>>
    /\ CommitOnly

\* The restart button of the finished screen: setStep(IDLE).
Restart ==
    /\ step = "FINISHED"
    /\ step' = "IDLE"
    /\ lastAction' = "other"
    /\ UNCHANGED <<result, assets, isRegenerating, isExporting, isPlaying, captureVars, segVars, tlVars, retryVars, wrapVars>>
    /\ CommitOnly

\* regenerateAudio up to its await.
RegenerateAudio ==
    /\ step = "FINISHED"
    /\ result # null
    /\ "audio" \notin isRegenerating
    /\ isRegenerating' = isRegenerating \cup {"audio"}
    /\ lastAction' = "other"
    /\ UNCHANGED <<step, result, assets, isExporting, isPlaying, captureVars, segVars, tlVars, retryVars, wrapVars>>
    /\ CommitOnly

\* regenerateAudio after its await; narration = 0: no audio data, or the call threw.
RegenerateAudioDone(narration) ==
    /\ "audio" \in isRegenerating
    /\ assets' = IF narration > 0
                 THEN Append(NotOfType(assets, "audio"), AudioAsset(FreshUrlFor(0), narration))
                 ELSE assets
    /\ isRegenerating' = isRegenerating \ {"audio"}
    /\ lastAction' = "other"
    /\ UNCHANGED <<step, result, isExporting, isPlaying, captureVars, segVars, tlVars, retryVars, wrapVars>>
    /\ CommitOnly

\* regenerateSingleImage(index) up to its await.
RegenerateSingleImage(index) ==
    /\ step = "FINISHED"
    /\ result # null
    /\ ImageKey(index) \notin isRegenerating
    /\ isRegenerating' = isRegenerating \cup {ImageKey(index)}
    /\ lastAction' = "other"
    /\ UNCHANGED <<step, result, assets, isExporting, isPlaying, captureVars, segVars, tlVars, retryVars, wrapVars>>
    /\ CommitOnly

\* const idx = next.findIndex(a => a.name === name)   (0: not found)
findIndex(as, name) ==
    IF \E i \in 1..Len(as) : as[i].name = name
    THEN CHOOSE i \in 1..Len(as) :
             as[i].name = name /\ \A j \in 1..(i - 1) : as[j].name # name
    ELSE 0

\* if (idx !== -1) next[idx] = item; else next.push(item);
replaceOrPush(as, item) ==
    IF findIndex(as, item.name) # 0
    THEN [as EXCEPT ![findIndex(as, item.name)] = item]
    ELSE Append(as, item)

\* regenerateSingleImage(index) after its await; hasData is false when the response
\* holds no inline data or the call threw.
RegenerateSingleImageDone(index, hasData) ==
    /\ ImageKey(index) \in isRegenerating
    /\ assets' = IF hasData
                 THEN replaceOrPush(assets, ImageAsset(index + 1, FreshUrlFor(index + 1)))
                 ELSE assets
    /\ isRegenerating' = isRegenerating \ {ImageKey(index)}
    /\ lastAction' = IF hasData THEN "regenerateSingleImage" ELSE "other"
    /\ UNCHANGED <<step, result, isExporting, isPlaying, captureVars, segVars, tlVars, retryVars, wrapVars>>
    /\ CommitOnly

\* --- playback
\* handleTogglePlay
TogglePlay ==
    /\ Mounted(step, result)
    /\ isPlaying' = ~isPlaying
    /\ lastAction' = "handleTogglePlay"
    /\ UNCHANGED <<step, result, assets, isRegenerating, isExporting, captureVars, segVars, tlVars, retryVars, wrapVars>>
    /\ CommitOnly

\* One callback of requestAnimationFrame: render().
RenderFrame ==
    /\ frames > 0
    /\ currentTime' = audTime
    /\ frames' = frames - 1 + scheduledByRender(effIsPlaying)
    /\ lastAction' = "other"
    /\ UNCHANGED <<step, result, assets, isRegenerating, isExporting, isPlaying,
                   audioVars, captureVars, effLive, effIsPlaying, effImages,
                   effDuration, effCaptions, segVars, tlVars, retryVars, wrapVars>>

\* The audio element has read the metadata of its src: duration is known.
LoadedMetadata ==
    /\ Mounted(step, result)
    /\ audSrc # NoSrc
    /\ audDuration = NaN
    /\ audDuration' = NarrationLength(assets)
    /\ lastAction' = "other"
    /\ UNCHANGED <<reactVars, audSrc, audPaused, audTime, audOnEnded, captureVars,
                   effectVars, segVars, tlVars, retryVars, wrapVars>>

\* The audio clock advances by a second.
AudioAdvance ==
    /\ Mounted(step, result)
    /\ ~audPaused
    /\ audDuration # NaN
    /\ audTime < audDuration
    /\ audTime' = audTime + 1
    /\ lastAction' = "other"
    /\ UNCHANGED <<reactVars, audSrc, audPaused, audDuration, audOnEnded, captureVars,
                   effectVars, segVars, tlVars, retryVars, wrapVars>>

\* --- capture
\* if (!canvasRef.current) return;   (the isExporting test left out)
exportRejected_NoGuard == ~Mounted(step, result)

\* if (!canvasRef.current || isExporting) return;
exportRejected == ~Mounted(step, result) \/ isExporting

\* recorder.stop(): the recorder is inactive at once, its stop event is queued.
Stopped(recs, i) ==
    [recs EXCEPT ![i] = [state |-> "inactive", stops |-> @.stops + 1, stopQueued |-> TRUE]]

\* The handler left installed after it has run.
onendedAfterFire_Kept(onended) == onended

\* audio.onended = null at the end of the handler exportVideo installs.
onendedAfterFire(onended) == 0

\* exportVideo (it awaits nothing).
ExportVideo ==
    /\ step = "FINISHED"
    /\ IF exportRejected
       THEN /\ lastAction' = "exportVideoRejected"
            /\ UNCHANGED <<reactVars, audioVars, captureVars, effectVars, segVars, tlVars, retryVars, wrapVars>>
       ELSE /\ Len(recorders) < MaxCaptures
            /\ isExporting' = TRUE
            /\ recorders' = Append(recorders,
                                   [state |-> "recording", stops |-> 0, stopQueued |-> FALSE])
            /\ lastAction' = "exportVideo"
            /\ UNCHANGED <<step, result, assets, isRegenerating, segVars, tlVars, retryVars, wrapVars>>
            \* audioRef.current is set whenever canvasRef.current is
            /\ IF Mounted(step, result)
               THEN /\ isPlaying' = TRUE
                    /\ timerPending' = timerPending
                    /\ Commit(0, Len(recorders) + 1)
               ELSE /\ isPlaying' = FALSE
                    /\ timerPending' = TRUE
                    /\ CommitOnly

\* An onEnded handler that leaves the playback state alone.
onEnded_Noop(playing) == playing

\* onEnded={() => setIsPlaying(false)}, and setIsPlaying(false) of the onended
\* handler of exportVideo: isPlaying after the 'ended' event.
onEnded(playing) == FALSE

\* The 'ended' event of the narration: onEnded of the element, and the onended
\* handler of exportVideo when one is installed.
AudioEnded ==
    /\ Mounted(step, result)
    /\ ~audPaused
    /\ audDuration # NaN
    /\ audTime = audDuration
    /\ isPlaying' = onEnded(isPlaying)
    /\ recorders' = IF audOnEnded # 0 THEN Stopped(recorders, audOnEnded) ELSE recorders
    /\ lastAction' = "ended"
    /\ UNCHANGED <<step, result, assets, isRegenerating, isExporting, timerPending, segVars, tlVars, retryVars, wrapVars>>
    /\ Commit(audTime, IF audOnEnded # 0 THEN onendedAfterFire(audOnEnded) ELSE 0)

\* recorder.onstop of recorder i: the download, then setIsExporting(false).
RecorderOnStop(i) ==
    /\ recorders[i].stopQueued
    /\ recorders' = [recorders EXCEPT ![i].stopQueued = FALSE]
    /\ isExporting' = FALSE
    /\ lastAction' = "other"
    /\ UNCHANGED <<step, result, assets, isRegenerating, isPlaying, timerPending, segVars, tlVars, retryVars, wrapVars>>
    /\ CommitOnly

AppNext ==
    \/ StartTextGeneration
    \/ TextGenerationDone
    \/ GenerationFailed
    \/ ErrorToIdle
    \/ \E field \in EditFields : \E value \in EditTexts :
           EditScript(field, value)
    \/ StartAssetGeneration
    \/ \E kept \in SUBSET (1..NumPrompts) : \E narration \in 0..MaxDur :
           AssetGenerationDone(kept, narration)
    \/ Restart
    \/ RegenerateAudio
    \/ \E narration \in 0..MaxDur : RegenerateAudioDone(narration)
    \/ TogglePlay
    \/ RenderFrame
    \/ LoadedMetadata
    \/ AudioAdvance
    \/ ExportVideo
    \/ AudioEnded
    \/ \E i \in 1..Len(recorders) : RecorderOnStop(i)

\* ------------------------------------------------------------ callWithRetry
\* The phrases the catch block looks for in err.message.
Phrases == {"Requested entity was not found", "429"}

\* maxRetries = 3
DEFAULT_MAX_RETRIES == 3

\* An error rejected by fn: message is the set of the phrases err.message holds (an
\* absent message is "" by `err.message || ""` and holds none), status is
\* err.status (0 when absent), attempt tells the error objects of different
\* invocations apart.
Errors(attempt) ==
    [kind : {"error"}, message : SUBSET Phrases, status : {0, 429, 500}, attempt : {attempt}]

\* The value fn resolves with at an invocation.
Value(attempt) == [kind |-> "value", message |-> {}, status |-> 0, attempt |-> attempt]

\* let lastError before the first catch, and rtSettled while the call is pending.
Unset == [kind |-> "undefined", message |-> {}, status |-> 0, attempt |-> 0]

\* new Error("API 키가 유효하지 않거나 …")
KeyError == [kind |-> "keyError", message |-> {}, status |-> 0, attempt |-> 0]

\* msg.includes("Requested entity was not found")
isKeyLost(err) == "Requested entity was not found" \in err.message

\* msg.includes('429') || err.status === 429
isRateLimited(err) == "429" \in err.message \/ err.status = 429

\* A catch block that tests the rate limit before the lost key.
classify_RateLimitFirst(err) ==
    IF isRateLimited(err) THEN "retry"
    ELSE IF isKeyLost(err) THEN "keyLost"
    ELSE "rethrow"

\* A catch block that backs off on every error that is not the lost key.
classify_RetryAll(err) == IF isKeyLost(err) THEN "keyLost" ELSE "retry"

\* The branch of the catch block taken for err: the two ifs in their order.
classify(err) ==
    IF isKeyLost(err) THEN "keyLost"
    ELSE IF isRateLimited(err) THEN "retry"
    ELSE "rethrow"

\* A loop that runs once more than maxRetries.
loopCondition_Inclusive(i, maxRetries) == i <= maxRetries

\* i < maxRetries
loopCondition(i, maxRetries) == i < maxRetries

RetryIdle ==
    /\ hasKey = "null"
    /\ keyCheckPending = TRUE
    /\ rtPc = "idle"
    /\ rtMaxRetries = DEFAULT_MAX_RETRIES
    /\ rtI = 0
    /\ rtLastError = Unset
    /\ rtSettled = Unset
    /\ rtAttempts = <<>>
    /\ rtCalls = 0
    /\ rtWaits = 0

\* checkKey of the mount effect: setHasKey(selected).
CheckKey(selected) ==
    /\ keyCheckPending
    /\ keyCheckPending' = FALSE
    /\ hasKey' = IF selected THEN "true" ELSE "false"
    /\ UNCHANGED <<rtPc, rtMaxRetries, rtI, rtLastError, rtSettled, rtAttempts, rtCalls,
                   rtWaits, segVars, tlVars, appVars, wrapVars>>

\* handleOpenKeySelector, on the key selection screen: setHasKey(true).
OpenKeySelector ==
    /\ hasKey = "false"
    /\ hasKey' = "true"
    /\ UNCHANGED <<keyCheckPending, rtPc, rtMaxRetries, rtI, rtLastError, rtSettled,
                   rtAttempts, rtCalls, rtWaits, segVars, tlVars, appVars, wrapVars>>

\* The top of the for loop with i = next, after calls invocations of fn: fn is
\* invoked when the condition holds, and lastError is thrown when it does not.
LoopTop(next, maxRetries, lastError, calls) ==
    /\ rtI' = next
    /\ IF loopCondition(next, maxRetries)
          THEN /\ rtPc' = "calling"
               /\ rtCalls' = calls + 1
               /\ rtSettled' = Unset
          ELSE /\ rtPc' = "thrown"
               /\ rtCalls' = calls
               /\ rtSettled' = lastError

\* A handler of the main screen calls callWithRetry(fn, maxRetries); the earlier
\* call has settled.
RetryStart(maxRetries) ==
    /\ rtPc \in {"idle", "returned", "thrown"}
    /\ hasKey # "false"
    /\ rtMaxRetries' = maxRetries
    /\ rtLastError' = Unset
    /\ rtAttempts' = <<>>
    /\ rtWaits' = 0
    /\ LoopTop(0, maxRetries, Unset, 0)
    /\ UNCHANGED <<hasKey, keyCheckPending, segVars, tlVars, appVars, wrapVars>>

\* return await fn(): the promise of fn resolves.
FnResolves ==
    /\ rtPc = "calling"
    /\ rtAttempts' = Append(rtAttempts, Value(rtCalls))
    /\ rtPc' = "returned"
    /\ rtSettled' = Value(rtCalls)
    /\ UNCHANGED <<hasKey, keyCheckPending, rtMaxRetries, rtI, rtLastError, rtCalls, rtWaits,
                   segVars, tlVars, appVars, wrapVars>>

\* catch (err): the promise of fn rejects with err.
FnRejects(err) ==
    /\ rtPc = "calling"
    /\ rtAttempts' = Append(rtAttempts, err)
    /\ rtLastError' = err
    /\ CASE classify(err) = "keyLost" ->
              /\ hasKey' = "false"
              /\ rtPc' = "thrown"
              /\ rtSettled' = KeyError
              /\ UNCHANGED rtWaits
         [] classify(err) = "retry" ->
              /\ rtPc' = "waiting"
              /\ rtWaits' = rtWaits + 1
              /\ UNCHANGED <<hasKey, rtSettled>>
         [] OTHER ->
              /\ rtPc' = "thrown"
              /\ rtSettled' = err
              /\ UNCHANGED <<hasKey, rtWaits>>
    /\ UNCHANGED <<keyCheckPending, rtMaxRetries, rtI, rtCalls, segVars, tlVars, appVars, wrapVars>>

\* The backoff timer fires: continue, i++, and the top of the loop.
BackoffElapsed ==
    /\ rtPc = "waiting"
    /\ LoopTop(rtI + 1, rtMaxRetries, rtLastError, rtCalls)
    /\ UNCHANGED <<hasKey, keyCheckPending, rtMaxRetries, rtLastError, rtAttempts, rtWaits,
                   segVars, tlVars, appVars, wrapVars>>

\* ------------------------------------------------------------ caption wrap
\* The widths w of the canvas, one per aspect ratio.
CanvasWidths == {720, 1280, 1000, 750}

\* const fontSize = Math.floor(w * 0.05)
fontSize(w) == (w * 5) \div 100

\* ctx.measureText(line).width with the font `bold ${fontSize}px`: every glyph
\* advances em times the font size.
measureText(line, w, em) == Len(line) * em * fontSize(w)

\* ctx.measureText(line).width < maxWidth, with maxWidth = w * 0.85
fits(line, w, em) == measureText(line, w, em) * 100 < w * 85

RECURSIVE split(_, _)
\* text.split(' ') from index i on: two spaces in a row give an empty word.
split(text, i) ==
    LET B == {j \in i..Len(text) : text[j] = " "}
    IN  IF B = {} THEN <<SubSeq(text, i, Len(text))>>
        ELSE <<SubSeq(text, i, Least(B) - 1)>> \o split(text, Least(B) + 1)

RECURSIVE wrap(_, _, _, _, _, _)
\* The for loop over words[i..] with the lines pushed so far and currentLine, and
\* lines.push(currentLine) after it.
wrap(words, i, lines, currentLine, w, em) ==
    IF i > Len(words) THEN Append(lines, currentLine)
    ELSE IF fits(currentLine \o <<" ">> \o words[i], w, em)
         THEN wrap(words, i + 1, lines, currentLine \o <<" ">> \o words[i], w, em)
         ELSE wrap(words, i + 1, Append(lines, currentLine), words[i], w, em)

\* No truncation: every line is drawn.
finalLines_All(lines) == lines

\* const finalLines = lines.slice(0, 2)
finalLines(lines) == SubSeq(lines, 1, Min(2, Len(lines)))

\* The largest number of words of a caption.
MaxWords == 4
\* The largest advance of a glyph, in em.
MaxGlyphEm == 2

\* The words of the captions: an empty one (two spaces in a row), a short one and a
\* long one.
WordPool == { <<>>, <<"a">>, Word(8) }

RECURSIVE JoinWords(_)
JoinWords(ws) ==
    IF Len(ws) = 1 THEN ws[1] ELSE ws[1] \o <<" ">> \o JoinWords(Tail(ws))

\* The texts of captions: chunks are trimmed and not empty, so a text neither
\* starts nor ends with a space.
CaptionTexts ==
    UNION { { JoinWords(ws) : ws \in { x \in [1..k -> WordPool] : x[1] # <<>> /\ x[k] # <<>> } } :
            k \in 1..MaxWords }

WrapIdle ==
    /\ wrText = <<>>
    /\ wrW = 720
    /\ wrEm = 1
    /\ wrLines = <<>>
    /\ wrFinal = <<>>
    /\ wrPc = "idle"

WrapInit ==
    /\ wrText \in CaptionTexts
    /\ wrW \in CanvasWidths
    /\ wrEm \in 1..MaxGlyphEm
    /\ wrLines = <<>>
    /\ wrFinal = <<>>
    /\ wrPc = "input"

\* The caption block of render for currentCap.text = wrText.
WrapDraw ==
    /\ wrPc = "input"
    /\ LET words == split(wrText, 1)
           lines == wrap(words, 2, <<>>, words[1], wrW, wrEm)
       IN  /\ wrLines' = lines
           /\ wrFinal' = finalLines(lines)
    /\ wrPc' = "drawn"
    /\ UNCHANGED <<wrText, wrW, wrEm, segVars, tlVars, appVars, retryVars>>

\* ------------------------------------------------------------ specifications
InitSegmenter == SegInit /\ TlIdle /\ AppIdle /\ RetryIdle /\ WrapIdle
SegNext == SegSplit
SpecSegmenter == InitSegmenter /\ [][SegNext]_vars

InitTimeline == TlInit /\ SegIdle /\ AppIdle /\ RetryIdle /\ WrapIdle
TlNext == TlMap \/ TlTick
SpecTimeline == InitTimeline /\ [][TlNext]_vars

Init == AppInit /\ SegIdle /\ TlIdle /\ RetryIdle /\ WrapIdle
Next == AppNext
Spec == Init /\ [][Next]_vars

\* The guard of AudioEnded: a playing element has reached the end of its media.
AudioEndedEnabled ==
    Mounted(step, result) /\ ~audPaused /\ audDuration # NaN /\ audTime = audDuration

\* The guard of RecorderOnStop: a stop event is queued.
RecorderOnStopEnabled == \E i \in 1..Len(recorders) : recorders[i].stopQueued

\* The scenes of one session: the generation, the edits of the script, the
\* regeneration of single images, and the playback.  (For the playback and the
\* capture a regenerated image is what an edit of the script is: a dependency of the
\* render effect changes and the narration stays.)
ScenesNext ==
    \/ StartTextGeneration
    \/ TextGenerationDone
    \/ StartAssetGeneration
    \/ \E kept \in SUBSET (1..NumPrompts) : \E narration \in 0..MaxDur :
           AssetGenerationDone(kept, narration)
    \/ \E field \in EditFields : \E value \in EditTexts :
           EditScript(field, value)
    \/ \E index \in 0..(NumPrompts - 1) : RegenerateSingleImage(index)
    \/ \E index \in 0..(NumPrompts - 1) : \E hasData \in BOOLEAN :
           RegenerateSingleImageDone(index, hasData)
    \/ TogglePlay
    \/ RenderFrame
    \/ LoadedMetadata
    \/ AudioAdvance
    \/ AudioEnded
SpecScenes == Init /\ [][ScenesNext]_vars

\* What the browser does without the user: the audio clock of a playing element
\* advances, the element reads its metadata, and queued events are delivered
\* (weak fairness of each, the last two written out with their guards).  The
\* user's clicks and the responses of the services carry no such guarantee.
Fairness ==
    /\ WF_vars(AudioAdvance)
    /\ WF_vars(LoadedMetadata)
    /\ ([]<>(~AudioEndedEnabled) \/ []<><<AudioEnded>>_vars)
    /\ ([]<>(~RecorderOnStopEnabled)
           \/ []<><<\E i \in 1..Len(recorders) : RecorderOnStop(i)>>_vars)
SpecFair == Init /\ [][Next]_vars /\ Fairness

InitWrap == WrapInit /\ SegIdle /\ TlIdle /\ AppIdle /\ RetryIdle
WrapNext == WrapDraw
SpecWrap == InitWrap /\ [][WrapNext]_vars

\* The largest maxRetries a call is given.
MaxRetryArg == 3

RetryNext ==
    \/ \E selected \in BOOLEAN : CheckKey(selected)
    \/ OpenKeySelector
    \/ \E maxRetries \in 1..MaxRetryArg : RetryStart(maxRetries)
    \/ FnResolves
    \/ \E err \in Errors(rtCalls) : FnRejects(err)
    \/ BackoffElapsed
SpecRetry == Init /\ [][RetryNext]_vars

\* The service answers every request and the browser fires every timer.
RetryFairness ==
    /\ WF_vars(FnResolves \/ \E err \in Errors(rtCalls) : FnRejects(err))
    /\ WF_vars(BackoffElapsed)
SpecRetryFair == Init /\ [][RetryNext]_vars /\ RetryFairness


\* ------------------------------------------------------------------- claims
NonDecreasing(captions) ==
    \A i \in 1..(Len(captions) - 1) : RLe(captions[i].startTime, captions[i + 1].startTime)

\* C1: a timeline with at least one caption, built for a duration > 0, partitions
\* [0, duration]: the first startTime is 0, startTime never decreases, each endTime
\* is the next startTime, the last endTime is the duration.
C1_TimelinePartitions ==
    (tlPc \in {"mapped", "ticked"} /\ tlCaptions # <<>> /\ tlDuration > 0) =>
        /\ REq(tlCaptions[1].startTime, RInt(0))
        /\ NonDecreasing(tlCaptions)
        /\ \A i \in 1..(Len(tlCaptions) - 1) :
               REq(tlCaptions[i].endTime, tlCaptions[i + 1].startTime)
        /\ REq(tlCaptions[Len(tlCaptions)].endTime, RInt(tlDuration))

\* A timeline with captions of all three sections, two of them of the body.
C1_Witness ==
    /\ tlPc = "mapped"
    /\ Len(tlCaptions) >= 4
    /\ {tlCaptions[i].section : i \in 1..Len(tlCaptions)} = {"hook", "body", "outro"}

\* C2: the image index of a render tick lies in [0, images.length - 1] for every
\* images.length >= 1, every clock time in [0, duration] and every section.
C2_ImageIndexInRange ==
    (tlPc = "ticked" /\ tlImages >= 1 /\ tlCap.section \in {"hook", "body", "outro"}) =>
        (0 <= tlIdx /\ tlIdx <= tlImages - 1)

\* C3: at most one recorder records at a time, and a call of exportVideo while
\* isExporting leaves the recorders, the playback state and the audio element as
\* they are.
C3_OneCaptureInFlight ==
    /\ [](Cardinality({i \in 1..Len(recorders) : recorders[i].state = "recording"}) <= 1)
    /\ [][(isExporting /\ lastAction' \in {"exportVideo", "exportVideoRejected"}) =>
              UNCHANGED <<recorders, timerPending, isExporting, isPlaying, audioVars>>]_vars

\* exportVideo was called, and rejected, while a recorder records.
C3_Witness ==
    /\ lastAction = "exportVideoRejected"
    /\ \E i \in 1..Len(recorders) : recorders[i].state = "recording"

C5_PauseStopsCapture ==
    (lastAction = "handleTogglePlay" /\ ~isPlaying) =>
        ~(isExporting /\ \E i \in 1..Len(recorders) : recorders[i].state = "recording")

\* C6: no frame is scheduled while isPlaying is false.
C6_NoFrameUnlessPlaying == ~isPlaying => ~framePending

\* Playback has just left Playing, by a pause or by the end of the narration, with
\* the render effect live.
C6_Witness ==
    /\ lastAction \in {"handleTogglePlay", "ended"}
    /\ ~isPlaying
    /\ effLive

\* C7: a step that gives the session a new narration leaves isPlaying false and
\* currentTime 0.
C7_NewSessionResetsPlayback ==
    [][(NarrationSrc(assets') # NoSrc /\ NarrationSrc(assets') # NarrationSrc(assets)) =>
           (~isPlaying' /\ currentTime' = 0)]_vars

\* C8: the timeline of the next render tick is built from the current script and
\* the current measured duration of the narration (the fallback only while none
\* is known).
C8_TickUsesCurrentTimeline ==
    framePending =>
        /\ effDuration = effectDuration(audDuration)
        /\ effCaptions = getTimedCaptions(result.script, effectDuration(audDuration))

RECURSIVE ReproducesFrom(_, _)
\* text is the chunks in order, with nothing but whitespace before, between and
\* after them.
ReproducesFrom(text, chunks) ==
    LET rest == SubSeq(text, SkipSpaces(text, 1), Len(text))
    IN  IF chunks = <<>> THEN rest = <<>>
        ELSE /\ Len(Head(chunks)) <= Len(rest)
             /\ SubSeq(rest, 1, Len(Head(chunks))) = Head(chunks)
             /\ ReproducesFrom(SubSeq(rest, Len(Head(chunks)) + 1, Len(rest)), Tail(chunks))

\* The text holds words and ends with a sentence terminator: at least one
\* sentence, and none that lacks its terminator.
HasSentences(text) ==
    /\ \E i \in 1..Len(text) : text[i] = "a"
    /\ IsTerminator(Trim(text)[Len(Trim(text))])

\* C9: the chunks of a section with at least one sentence, concatenated in order,
\* are the text of the section up to whitespace at the chunk boundaries.
C9_ChunksReproduceText ==
    (segPc = "done" /\ HasSentences(segText)) => ReproducesFrom(segText, segChunks)

\* C10: every caption of a timeline the effect builds has startTime < endTime, for
\* every reading of audio.duration (a length, 0, or NaN).
C10_CaptionsHaveLength ==
    tlPc \in {"mapped", "ticked"} =>
        \A i \in 1..Len(tlCaptions) : RLt(tlCaptions[i].startTime, tlCaptions[i].endTime)

\* A timeline built with the fallback duration, audio.duration reading 0.
C10_Witness ==
    /\ tlPc = "mapped"
    /\ tlMeasured = 0
    /\ Len(tlCaptions) >= 2

\* C11: under fair progress of the audio clock and of the event delivery, every
\* recorder that records is eventually stopped, with isExporting back to false.
C11_CaptureResolves ==
    \A i \in 1..MaxCaptures :
        (i <= Len(recorders) /\ recorders[i].state = "recording")
            ~> (i <= Len(recorders) /\ recorders[i].state = "inactive" /\ ~isExporting)

\* C12: a recorder is started only while the playback is Playing with the audio
\* clock running.  recorder.start() is the first effect of exportVideo, so the
\* playback state it meets is the one before the step.
C12_RecordingStartsWhilePlaying ==
    [][Len(recorders') > Len(recorders) => (isPlaying /\ ~audPaused)]_vars

\* C13: at most one callback of requestAnimationFrame(render) is scheduled at any
\* time (a tick runs to completion within its callback).
C13_OneTickPending == frames <= 1

\* The script was edited while playing: the effect re-ran and its loop has one
\* frame scheduled.
C13_Witness ==
    /\ lastAction = "handleEditResult"
    /\ isPlaying
    /\ frames = 1

\* C14: after the 'ended' event isPlaying is false, the audio element is paused
\* and no frame is scheduled; while isPlaying is false a frame gets scheduled only
\* by a play request (handleTogglePlay or exportVideo).
C14_EndedPauses ==
    /\ [](lastAction = "ended" => (~isPlaying /\ audPaused /\ frames = 0))
    /\ [][(~isPlaying /\ frames' > 0) =>
              lastAction' \in {"handleTogglePlay", "exportVideo"}]_vars

\* The narration has played to its end outside a capture.
C14_Witness ==
    /\ lastAction = "ended"
    /\ recorders = <<>>
    /\ audTime = audDuration
    /\ audPaused

\* C15: a play or pause request (handleTogglePlay) leaves the position of the audio
\* clock as it is.
C15_ToggleKeepsClock ==
    [][lastAction' = "handleTogglePlay" => audTime' = audTime]_vars

\* The indices of the captions whose interval [startTime, endTime) holds time.
Containing(captions, time) ==
    {i \in 1..Len(captions) :
        RLe(captions[i].startTime, time) /\ RLt(time, captions[i].endTime)}

\* C16: on a timeline with captions a render tick selects the first caption whose
\* interval holds the clock time, the last caption when none does, and never
\* no caption.
C16_CaptionSelection ==
    (tlPc = "ticked" /\ tlCaptions # <<>>) =>
        /\ tlCap # undefined
        /\ LET C == Containing(tlCaptions, tlTime)
           IN  IF C # {}
               THEN tlCap = tlCaptions[CHOOSE i \in C : \A j \in C : i <= j]
               ELSE tlCap = tlCaptions[Len(tlCaptions)]

\* A tick at or past the end of a timeline of several captions: no interval holds
\* the clock time.
C16_Witness ==
    /\ tlPc = "ticked"
    /\ Len(tlCaptions) >= 2
    /\ RLt(RInt(tlDuration), tlTime)
    /\ Containing(tlCaptions, tlTime) = {}
    /\ tlCap = tlCaptions[Len(tlCaptions)]

\* The text is empty or holds whitespace only.
Blank(text) == \A i \in 1..Len(text) : IsSpace(text[i])

\* C17: an empty or whitespace-only section gives no caption; a script of three
\* such sections gives the empty timeline; no time of a timeline is a quotient by
\* zero; a render tick on the empty timeline selects no caption, and the quotient
\* of its image selection is defined.
C17_DegenerateScripts ==
    tlPc \in {"mapped", "ticked"} =>
        /\ \A sec \in {"hook", "body", "outro"} :
               Blank(tlScript[sec]) =>
                   \A i \in 1..Len(tlCaptions) : tlCaptions[i].section # sec
        /\ (\A sec \in {"hook", "body", "outro"} : Blank(tlScript[sec])) => tlCaptions = <<>>
        /\ \A i \in 1..Len(tlCaptions) :
               tlCaptions[i].startTime.d > 0 /\ tlCaptions[i].endTime.d > 0
        /\ (tlPc = "ticked" /\ tlCaptions = <<>>) =>
               /\ tlCap = undefined
               /\ prog(tlCaptions, tlDuration, tlTime).d > 0

\* A render tick on the empty timeline of a script that holds whitespace only.
C17_Witness ==
    /\ tlPc = "ticked"
    /\ \E sec \in {"hook", "body", "outro"} : tlScript[sec] # <<>>
    /\ \A sec \in {"hook", "body", "outro"} : Blank(tlScript[sec])
    /\ tlCaptions = <<>>

\* seq without its element at position k.
RemoveAt(seq, k) == SubSeq(seq, 1, k - 1) \o SubSeq(seq, k + 1, Len(seq))

\* The scenes are in the order of their prompts.
InPromptOrder(scenes) ==
    \A i \in 1..(Len(scenes) - 1) : scenes[i].name < scenes[i + 1].name

\* scenes is before with the scene at position k replaced when before holds a scene
\* of that name, and inserted otherwise: every other scene is unchanged and in its
\* place.
ReplacesSceneAt(before, scenes, k) ==
    IF \E j \in 1..Len(before) : before[j].name = scenes[k].name
    THEN /\ Len(scenes) = Len(before)
         /\ before[k].name = scenes[k].name
         /\ RemoveAt(scenes, k) = RemoveAt(before, k)
    ELSE RemoveAt(scenes, k) = before

\* C18: a regenerateSingleImage that got its image changes the scene of that image
\* only: every other scene and every other asset is unchanged and in its place, an
\* existing scene is replaced in place, and scenes in the order of their prompts
\* stay in that order (the first is the hook scene, the last the outro scene),
\* also when the image had not been generated before.
C18_RegenerationKeepsScenes ==
    [][lastAction' = "regenerateSingleImage" =>
          LET before == OfType(assets, "image")
              scenes == OfType(assets', "image")
          IN  /\ NotOfType(assets', "image") = NotOfType(assets, "image")
              /\ \E k \in 1..Len(scenes) : ReplacesSceneAt(before, scenes, k)
              /\ InPromptOrder(before) => InPromptOrder(scenes)]_vars

\* C19: the scene sequence and the timeline the next render tick reads are the
\* ones of a single run of the effect, and both are those of the current assets
\* and script: never the new one of the two with the old other.
C19_TickSnapshot ==
    framePending =>
        /\ effLive
        /\ effImages = OfType(assets, "image")
        /\ effCaptions = getTimedCaptions(result.script, effDuration)

\* An image was regenerated while playing, after the script had been edited.
C19_Witness ==
    /\ lastAction = "regenerateSingleImage"
    /\ framePending
    /\ result.script # GeneratedScript

\* C20: with three or more images, a tick during a caption selects the first image
\* exactly when the caption is of the hook, the last image exactly when it is of
\* the outro, and an image in [1, images.length - 2] during a caption of the body.
C20_SceneReservation ==
    (tlPc = "ticked" /\ tlImages >= 3 /\ tlCap # undefined) =>
        /\ (tlIdx = 0) <=> (tlCap.section = "hook")
        /\ (tlIdx = tlImages - 1) <=> (tlCap.section = "outro")
        /\ (tlCap.section = "body") => (1 <= tlIdx /\ tlIdx <= tlImages - 2)

\* A tick during the body that selects the second of two interior images, on a
\* timeline that has a hook and an outro as well.
C20_Witness ==
    /\ tlPc = "ticked"
    /\ tlImages = 4
    /\ tlCap.section = "body"
    /\ tlIdx = 2
    /\ {tlCaptions[i].section : i \in 1..Len(tlCaptions)} = {"hook", "body", "outro"}

\* The positions of the body captions of a timeline.
BodyAt(captions) == {i \in 1..Len(captions) : captions[i].section = "body"}

\* 1 + floor(prog * bodyCount) clamped to [1, n - 2], with bodyCount = n - 2 and
\* prog = (time - bodyStart) / (bodyEnd - bodyStart), 0 when the two coincide;
\* bodyStart is the startTime of the first body caption, bodyEnd the endTime of
\* the last.
InteriorIndex(captions, time, n) ==
    LET first == CHOOSE i \in BodyAt(captions) : \A j \in BodyAt(captions) : i <= j
        last == CHOOSE i \in BodyAt(captions) : \A j \in BodyAt(captions) : j <= i
        bodyStart == captions[first].startTime
        bodyEnd == captions[last].endTime
        progress == IF REq(bodyStart, bodyEnd) THEN RInt(0)
                    ELSE RDiv(RSub(time, bodyStart), RSub(bodyEnd, bodyStart))
        raw == 1 + RFloor(RMulInt(progress, n - 2))
    IN  IF raw < 1 THEN 1 ELSE IF raw > n - 2 THEN n - 2 ELSE raw

\* A 12 s timeline whose body spans [2, 9].
ExampleTimeline ==
    << [text |-> <<"a", ".">>, startTime |-> RInt(0), endTime |-> RInt(2), section |-> "hook"],
       [text |-> <<"a", ".">>, startTime |-> RInt(2), endTime |-> RInt(9), section |-> "body"],
       [text |-> <<"a", ".">>, startTime |-> RInt(9), endTime |-> RInt(12), section |-> "outro"] >>

\* C21: during a body caption, with three or more images, the image index is
\* 1 + floor(prog * bodyCount) clamped to [1, images.length - 2]; with 5 images, the
\* body spanning [2, 9] and the clock at 5.5 it is 2.
C21_InteriorIndex ==
    /\ (tlPc = "ticked" /\ tlImages >= 3 /\ tlCap.section = "body") =>
           tlIdx = InteriorIndex(tlCaptions, tlTime, tlImages)
    /\ tlPc = "ticked" => currentImgIdx(ExampleTimeline, 12, Rat(11, 2), 5) = 2

\* A tick inside the body, after its start, on a timeline with a hook: the first
\* of two interior images is selected.
C21_Witness ==
    /\ tlPc = "ticked"
    /\ tlImages = 4
    /\ tlCap.section = "body"
    /\ tlCaptions[1].section = "hook"
    /\ RLt(tlCap.startTime, tlTime)
    /\ tlIdx = 1

\* Every invocation of fn so far was rejected with an error of the rate-limit
\* branch.
AllRateLimited == \A k \in 1..Len(rtAttempts) : classify(rtAttempts[k]) = "retry"

\* C22: callWithRetry invokes fn at most maxRetries times, returns the value of
\* the first attempt that succeeds without another invocation, and throws the last
\* rate-limit error when every attempt failed with one; a started call settles.
C22_BoundedRetries ==
    /\ [](rtCalls <= rtMaxRetries)
    /\ [](rtPc = "returned" =>
              /\ rtCalls = Len(rtAttempts)
              /\ rtSettled = rtAttempts[rtCalls]
              /\ rtSettled.kind = "value"
              /\ \A k \in 1..(rtCalls - 1) : rtAttempts[k].kind = "error")
    /\ []((rtPc = "thrown" /\ AllRateLimited) =>
              /\ rtCalls = rtMaxRetries
              /\ Len(rtAttempts) = rtMaxRetries
              /\ rtSettled = rtAttempts[rtMaxRetries])
    /\ ((rtPc \in {"calling", "waiting"}) ~> (rtPc \in {"returned", "thrown"}))

\* A default call whose three attempts were all rate limited has thrown.
C22_Witness ==
    /\ rtPc = "thrown"
    /\ rtMaxRetries = DEFAULT_MAX_RETRIES
    /\ rtCalls = DEFAULT_MAX_RETRIES
    /\ AllRateLimited
    /\ rtSettled.kind = "error"

\* fn has just been rejected: the catch block runs in this step.
Caught == rtPc = "calling" /\ Len(rtAttempts') = Len(rtAttempts) + 1
                          /\ rtAttempts'[Len(rtAttempts')].kind = "error"

\* C23: when fn is rejected with the lost-key error, at any attempt and also when
\* the error passes the rate-limit test, hasKey becomes false, an error is thrown
\* to the caller and fn is not invoked again.
C23_KeyLostIsFatal ==
    [][(Caught /\ isKeyLost(rtLastError')) =>
          /\ hasKey' = "false"
          /\ rtPc' = "thrown"
          /\ rtSettled' = KeyError
          /\ rtCalls' = rtCalls
          /\ rtWaits' = rtWaits]_vars

\* The second attempt failed with a lost-key error that is also a 429.
C23_Witness ==
    /\ rtPc = "thrown"
    /\ Len(rtAttempts) = 2
    /\ isKeyLost(rtAttempts[2])
    /\ isRateLimited(rtAttempts[2])
    /\ hasKey = "false"
    /\ rtCalls = 2

\* C24: when fn is rejected with an error that is neither the lost key nor a rate
\* limit, that same error is thrown at once: no backoff timer, no further
\* invocation of fn, hasKey unchanged.
C24_OtherErrorsPropagate ==
    [][(Caught /\ ~isKeyLost(rtLastError') /\ ~isRateLimited(rtLastError')) =>
          /\ rtPc' = "thrown"
          /\ rtSettled' = rtAttempts'[Len(rtAttempts')]
          /\ rtWaits' = rtWaits
          /\ rtCalls' = rtCalls
          /\ hasKey' = hasKey]_vars

\* A server error at the second attempt, after one backoff, was thrown as it is.
C24_Witness ==
    /\ rtPc = "thrown"
    /\ Len(rtAttempts) = 2
    /\ rtAttempts[2].status = 500
    /\ rtAttempts[2].message = {}
    /\ rtSettled = rtAttempts[2]
    /\ rtWaits = 1
    /\ hasKey = "true"

\* The clauses of a sentence, each comma a part of its own.
PartsOf(sentence) == DropEmpty(SplitClausesFrom(sentence, 1))

\* chunks are the parts cut into consecutive groups, the buffers, so that a buffer
\* of several parts has at most MAX_CHARS characters, and a buffer ends exactly
\* where the next part would take it over MAX_CHARS; a chunk is its buffer trimmed.
FlushedWhenFull(parts, chunks) ==
    LET n == Len(parts)
    IN  \E cuts \in SUBSET (1..(n - 1)) :
            LET ends == cuts \cup {n}
                from(e) == 1 + Cardinality({p \in 1..n : \E c \in ends : c < e /\ p <= c})
                at(e) == Cardinality({c \in ends : c <= e})
                buffer(e) == Join(SubSeq(parts, from(e), e))
            IN  /\ Len(chunks) = Cardinality(ends)
                /\ \A e \in ends :
                       /\ chunks[at(e)] = Trim(buffer(e))
                       /\ Len(buffer(e)) <= MAX_CHARS \/ from(e) = e
                       /\ e < n => Len(buffer(e) \o parts[e + 1]) > MAX_CHARS

\* C25: no chunk is empty; a chunk longer than MAX_CHARS holds no comma boundary;
\* within a long sentence the buffer is flushed exactly when the next clause would
\* take it over MAX_CHARS, and never when it is empty.
C25_ChunkLengths ==
    segPc = "done" =>
        /\ \A i \in 1..Len(segChunks) :
               /\ segChunks[i] # <<>>
               /\ Len(segChunks[i]) <= MAX_CHARS
                     \/ NextClauseBreak(segChunks[i], 1) > Len(segChunks[i])
        /\ segChunks = FlatMapChunks(Sentences(segText))
        /\ \A k \in 1..Len(Sentences(segText)) :
               LET sentence == Sentences(segText)[k]
               IN  Len(sentence) > MAX_CHARS =>
                       FlushedWhenFull(PartsOf(sentence), SentenceChunks(sentence))

\* A clause longer than MAX_CHARS was emitted whole, and the rest of its sentence
\* after it.
C25_Witness ==
    /\ segPc = "done"
    /\ Len(segChunks) = 2
    /\ Len(segChunks[1]) > MAX_CHARS
    /\ Len(Sentences(segText)) = 1

\* C26: at most one operation that writes assets or the script is awaiting its
\* response at any time; isRegenerating holds the keys of the regenerations that
\* are awaiting theirs.
C26_OneMutationInFlight == Cardinality(isRegenerating) <= 1

\* lines is the text broken at some of its spaces (a break takes the space away) so
\* that a line of several words is under the maximum width, and there is a break
\* at a space exactly when the line up to it, the space and the next word
\* together are not under the maximum width.
GreedyLines(text, lines, w, em) ==
    LET spaces == {i \in 1..Len(text) : text[i] = " "}
        n == Len(text) + 1
    IN  \E breaks \in SUBSET spaces :
            LET ends == breaks \cup {n}
                from(e) == IF \E b \in breaks : b < e
                           THEN 1 + CHOOSE b \in breaks : b < e /\ \A c \in breaks : c < e => c <= b
                           ELSE 1
                at(e) == Cardinality({c \in ends : c <= e})
                wordEnd(e) == IF \E p \in spaces : p > e
                              THEN (CHOOSE p \in spaces : p > e /\ \A q \in spaces : q > e => p <= q) - 1
                              ELSE Len(text)
                line(e) == SubSeq(text, from(e), e - 1)
            IN  /\ Len(lines) = Cardinality(ends)
                /\ \A e \in ends :
                       /\ lines[at(e)] = line(e)
                       /\ fits(line(e), w, em) \/ \A i \in from(e)..(e - 1) : text[i] # " "
                       /\ e < n => ~fits(SubSeq(text, from(e), wordEnd(e)), w, em)

\* C27: one or two lines are drawn, the first two lines of the greedy wrap of the
\* caption's words; a word joins the current line while the line stays under the
\* maximum width and starts a new line otherwise.
C27_TwoLinesOfGreedyWrap ==
    wrPc = "drawn" =>
        /\ Len(wrFinal) \in 1..2
        /\ GreedyLines(wrText, wrLines, wrW, wrEm)
        /\ \A k \in 1..Len(wrFinal) : wrFinal[k] = wrLines[k]
        /\ Len(wrFinal) = IF Len(wrLines) >= 2 THEN 2 ELSE 1

\* A caption that wraps into three lines, the third of which is not drawn.
C27_Witness ==
    /\ wrPc = "drawn"
    /\ Len(wrLines) = 3
    /\ Len(wrFinal) = 2
    /\ \E i \in 1..Len(wrFinal[1]) : wrFinal[1][i] = " "

\* The clock readings of one playback of the timeline, up to its duration.
PlaybackReadings == {t \in ClockReadings(tlDuration) : RLe(t, RInt(tlDuration))}

\* The clock reading before time.
PreviousReading(time) == Rat(time.n - 1, TimeRes)

\* C28: with three or more images, the image index of a tick is not below the
\* index the same timeline gives at the clock reading before it.  Every reading of
\* the playback is the time of such a tick, so the indices along the readings from
\* 0 to the duration never go down: index(t1) <= index(t2) for all t1 <= t2.
C28_IndexNonDecreasing ==
    (tlPc = "ticked" /\ tlImages >= 3 /\ tlTime \in PlaybackReadings /\ tlTime.n > 0) =>
        currentImgIdx(tlCaptions, tlDuration, PreviousReading(tlTime), tlImages) <= tlIdx

\* A tick at the second interior image, after readings at the hook image and at
\* the first interior image.
C28_Witness ==
    /\ tlPc = "ticked"
    /\ tlImages = 4
    /\ tlIdx = 2
    /\ tlTime \in PlaybackReadings
    /\ \E t0, t1 \in PlaybackReadings :
           /\ RLt(t0, t1) /\ RLt(t1, tlTime)
           /\ currentImgIdx(tlCaptions, tlDuration, t0, tlImages) = 0
           /\ currentImgIdx(tlCaptions, tlDuration, t1, tlImages) = 1

\* C29: from the start of a text generation until the asset generation of that
\* session completes, assets holds no image and no narration: a response to a
\* regeneration of an earlier session changes nothing.
C29_SessionsIsolated ==
    step \in {"GENERATING_TEXT", "REVIEW", "GENERATING_ASSETS"} =>
        (OfType(assets, "image") = <<>> /\ OfType(assets, "audio") = <<>>)

=============================================================================
